---- MODULE Spec2Model ----
(***************************************************************************)
(* Model of the find-video edge function (src/unnamed/part_003): one       *)
(* request travelling through the serve handler, the planning service and  *)
(* the video-search provider being the environment.                        *)
(*                                                                         *)
(* JavaScript values are records whose single field names their type, so   *)
(* that values of different types can be compared:                         *)
(*   undefined  [undef |-> TRUE]      null    [null |-> TRUE]              *)
(*   a number   [num |-> n]           a string [str |-> fragments]         *)
(*   an array   [arr |-> sequence]    an object: a record of its fields    *)
(* A string is the sequence of its fragments, so that a template literal   *)
(* is the concatenation of its pieces.                                     *)
(***************************************************************************)
EXTENDS Integers, Sequences, FiniteSets, TLC

\* ---------------------------------------------------------------- bounds
MaxSubtasks == 6      \* longest subtasks array the planner returns
MaxMainIds == 2
MaxInFlight == 3   \* findVideos calls awaiting their answer at one time
MaxInserts == 4    \* quiz_results rows inserted for the user
MaxDay == 4        \* days CURRENT_DATE advances past the first one       \* most identifiers the provider returns for the main query
NumNow == 1           \* number of clock readings sampled (one per day)

\* ------------------------------------------------------ program constants
SubtaskLimit == 5     \* .slice(0, 5)
DefaultMaxResults == 10   \* searchYouTube(query, apiKey, maxResults = 10)
SubtaskMaxResults == 5    \* searchYouTube(..., YOUTUBE_API_KEY, 5) of line 207
UnitsPerDay == 24     \* 1000 * 60 * 60 * 24 ms in a day; time is sampled in hours
ScoreScale == 1000    \* engagementScore / 1000; scores are kept in thousandths
ScoreMin == 1
ScoreMax == 100
ViewBonusThreshold == 100000
ViewBonus == 50
LikeWeight == 10
ViewWeightDivisor == 2   \* viewCount / daysSincePublish * 0.5

\* ------------------------------------------------------------- JS values
Undefined == [undef |-> TRUE]
Null == [null |-> TRUE]
Num(n) == [num |-> n]
Str(s) == [str |-> s]
Arr(a) == [arr |-> a]

IsStr(v) == DOMAIN v = {"str"}
IsArr(v) == DOMAIN v = {"arr"}
IsNullish(v) == v = Undefined \/ v = Null

\* ToBoolean: undefined, null, 0 and "" are falsy
Truthy(v) == ~(IsNullish(v) \/ v = Num(0) \/ v = Str(<< >>))

\* a || b
Or(a, b) == IF Truthy(a) THEN a ELSE b

\* v.k for a non-nullish v (a missing property reads as undefined)
Prop(v, k) == IF k \in DOMAIN v /\ k \notin {"str", "arr", "num"} THEN v[k] ELSE Undefined

Digits == <<"1", "2", "3", "4", "5", "6", "7", "8", "9">>

\* String(v) as a template literal renders it
ToStr(v) ==
  IF IsStr(v) THEN v.str
  ELSE IF v = Undefined THEN <<"undefined">>
  ELSE IF v = Null THEN <<"null">>
  ELSE IF DOMAIN v = {"num"} THEN (IF v.num = 0 THEN <<"0">> ELSE <<Digits[v.num]>>)
  ELSE <<"[object Object]">>

\* ------------------------------------------------- the planner's text
(***************************************************************************)
(* The planner's message content is a sequence of tokens: a code fence,    *)
(* the word json, white space, prose, or the text of one JSON value        *)
(* ([json |-> v], v the value JSON.parse yields for it).                   *)
(***************************************************************************)
Fence == [tok |-> "fence"]      \* three backquotes
JsonWord == [tok |-> "json"]
Space == [tok |-> " "]
Prose == [tok |-> "Here is the plan:"]
JsonText(v) == [json |-> v]

RECURSIVE TrimStart(_)
TrimStart(s) == IF s # << >> /\ Head(s) = Space THEN TrimStart(Tail(s)) ELSE s

RECURSIVE TrimEnd(_)
TrimEnd(s) == IF s # << >> /\ s[Len(s)] = Space THEN TrimEnd(SubSeq(s, 1, Len(s) - 1)) ELSE s

\* String.prototype.trim
Trim(s) == TrimEnd(TrimStart(s))

StartsWith(s, p) == Len(s) >= Len(p) /\ SubSeq(s, 1, Len(p)) = p
EndsWith(s, p) == Len(s) >= Len(p) /\ SubSeq(s, Len(s) - Len(p) + 1, Len(s)) = p
DropFirst(s, n) == SubSeq(s, n + 1, Len(s))
DropLast(s, n) == SubSeq(s, 1, Len(s) - n)

\* lines 177-180: the fence markers are stripped, each at most once
CleanContent(content) ==
  LET c0 == Trim(content)
      c1 == IF StartsWith(c0, <<Fence, JsonWord>>) THEN DropFirst(c0, 2) ELSE c0
      c2 == IF StartsWith(c1, <<Fence>>) THEN DropFirst(c1, 1) ELSE c1
      c3 == IF EndsWith(c2, <<Fence>>) THEN DropLast(c2, 1) ELSE c2
  IN  Trim(c3)

\* JSON.parse accepts exactly one JSON value (white space around it is trimmed)
JsonParses(text) == Len(text) = 1 /\ DOMAIN text[1] = {"json"}
JsonParse(text) == text[1].json

\* the try block of lines 176-181 throws: content is not a string (content.trim
\* is a TypeError) or the cleaned text is no JSON
ParseThrows(content) == content = Undefined \/ ~JsonParses(CleanContent(content.str))

\* FallbackPlan with its second and third subtasks exchanged
FallbackPlanReordered(topic) ==
  [subtasks |-> Arr(<<
      [title |-> Str(<<"Introduction to ">> \o ToStr(topic)),
       searchQuery |-> Str(ToStr(topic) \o <<" introduction tutorial">>)],
      [title |-> Str(<<"Practice ">> \o ToStr(topic)),
       searchQuery |-> Str(ToStr(topic) \o <<" examples practice">>)],
      [title |-> Str(<<"Core concepts of ">> \o ToStr(topic)),
       searchQuery |-> Str(ToStr(topic) \o <<" explained for beginners">>)] >>),
   mainSearchQuery |-> Str(ToStr(topic) \o <<" tutorial explained">>)]

\* lines 185-192
FallbackPlan(topic) ==
  [subtasks |-> Arr(<<
      [title |-> Str(<<"Introduction to ">> \o ToStr(topic)),
       searchQuery |-> Str(ToStr(topic) \o <<" introduction tutorial">>)],
      [title |-> Str(<<"Core concepts of ">> \o ToStr(topic)),
       searchQuery |-> Str(ToStr(topic) \o <<" explained for beginners">>)],
      [title |-> Str(<<"Practice ">> \o ToStr(topic)),
       searchQuery |-> Str(ToStr(topic) \o <<" examples practice">>)] >>),
   mainSearchQuery |-> Str(ToStr(topic) \o <<" tutorial explained">>)]

\* lines 175-193: parsedData after the try/catch
ParsePlan(content, topic) ==
  IF ParseThrows(content) THEN FallbackPlan(topic) ELSE JsonParse(CleanContent(content.str))

\* ------------------------------------------------------ searchYouTube
(***************************************************************************)
(* The provider's catalogue: what the detail call returns for each video   *)
(* identifier. A statistic the provider hides is Hidden. Times are hours.  *)
(***************************************************************************)
Hidden == -1
VideoIds == {"v1", "v2", "v3"}

\* the provider's hits for a subtask's query, best match first
SubtaskHits == <<"v1", "v2", "v3", "v4", "v5", "v6">>

Catalogue ==
  [id \in VideoIds \cup {SubtaskHits[k] : k \in 1..Len(SubtaskHits)} |->
     [id |-> id, title |-> <<"title of ", id>>, channelTitle |-> <<"channel of ", id>>,
      duration |-> "PT10M",
      viewCount |-> CASE id = "v1" -> 3001 [] id = "v2" -> 200000 [] id = "v3" -> 0
                      [] id = "v4" -> 50000 [] id = "v5" -> 0 [] OTHER -> 8000,
      likeCount |-> CASE id = "v1" -> Hidden [] id = "v2" -> 100 [] id = "v3" -> 10000
                      [] id = "v4" -> 10 [] id = "v5" -> Hidden [] OTHER -> 0,
      publishedAt |-> CASE id = "v1" -> 12 [] OTHER -> 0]]

\* Date.now() readings, one per day
NowInputs == {UnitsPerDay * k : k \in 1..NumNow}

Max(a, b) == IF a >= b THEN a ELSE b
Min(a, b) == IF a <= b THEN a ELSE b

\* parseInt(x || '0')
ParseCount(x) == IF x = Hidden THEN 0 ELSE x

\* RawScore with the bonus given up to the threshold instead of above it
RawScoreBonusBelow(viewCount, likeCount, publishedAt, now) ==
  LET den == ViewWeightDivisor * Max(UnitsPerDay, now - publishedAt)
      num == UnitsPerDay * viewCount
  IN  ((2 * num + den) \div (2 * den))
      + likeCount * LikeWeight
      + (IF viewCount <= ViewBonusThreshold THEN ViewBonus ELSE 0)

\* lines 55-60: Math.round(viewCount / daysSincePublish * 0.5 + likeCount * 10 + bonus)
\* with daysSincePublish = max(1, age / UnitsPerDay); the quotient is the exact
\* fraction (UnitsPerDay * viewCount) / (ViewWeightDivisor * max(UnitsPerDay, age))
\* and Math.round is floor(x + 1/2)
RawScore(viewCount, likeCount, publishedAt, now) ==
  LET den == ViewWeightDivisor * Max(UnitsPerDay, now - publishedAt)
      num == UnitsPerDay * viewCount
  IN  ((2 * num + den) \div (2 * den))
      + likeCount * LikeWeight
      + (IF viewCount > ViewBonusThreshold THEN ViewBonus ELSE 0)

\* EngagementScore without Math.max(1, ...)
EngagementScoreUnfloored(viewCount, likeCount, publishedAt, now) ==
  Min(ScoreMax * ScoreScale, RawScore(viewCount, likeCount, publishedAt, now))

\* EngagementScore rounding the quotient by 1000 instead of the raw score
EngagementScoreRoundedAfter(viewCount, likeCount, publishedAt, now) ==
  LET den == ViewWeightDivisor * Max(UnitsPerDay, now - publishedAt)
      num == UnitsPerDay * viewCount
            + den * (likeCount * LikeWeight
                     + (IF viewCount > ViewBonusThreshold THEN ViewBonus ELSE 0))
      rounded == (2 * num + ScoreScale * den) \div (2 * ScoreScale * den)
  IN  ScoreScale * Min(ScoreMax, Max(ScoreMin, rounded))

\* line 69: Math.min(100, Math.max(1, engagementScore / 1000)), in thousandths
EngagementScore(viewCount, likeCount, publishedAt, now) ==
  Min(ScoreMax * ScoreScale,
      Max(ScoreMin * ScoreScale, RawScore(viewCount, likeCount, publishedAt, now)))

Million == 1000000
Thousand == 1000

\* lines 77-85; toFixed(1) keeps one decimal: the value is held in tenths
formatViewCount(count) ==
  IF count >= Million THEN [tenths |-> (count + Million \div 20) \div (Million \div 10), unit |-> "M"]
  ELSE IF count >= Thousand THEN [tenths |-> (count + Thousand \div 20) \div (Thousand \div 10), unit |-> "K"]
  ELSE [tenths |-> 10 * count, unit |-> ""]

\* lines 49-71: one detail item to one YouTubeVideo
ToVideo(item, now) ==
  [videoId |-> item.id,
   title |-> item.title,
   channel |-> item.channelTitle,
   viewCount |-> formatViewCount(ParseCount(item.viewCount)),
   publishedAt |-> item.publishedAt,
   duration |-> item.duration,
   engagementScore |->
     EngagementScore(ParseCount(item.viewCount), ParseCount(item.likeCount),
                     item.publishedAt, now)]

\* Compare with the operands exchanged: an ascending sort
CompareAscending(a, b) == a.engagementScore - b.engagementScore

\* b.engagementScore - a.engagementScore: negative when a sorts before b
Compare(a, b) == b.engagementScore - a.engagementScore

\* Insert as an unstable sort would do it: v is placed before its equals
RECURSIVE InsertBeforeTies(_, _)
InsertBeforeTies(sorted, v) ==
  IF sorted = << >> THEN <<v>>
  ELSE IF Compare(v, Head(sorted)) <= 0 THEN <<v>> \o sorted
  ELSE <<Head(sorted)>> \o InsertBeforeTies(Tail(sorted), v)

\* v is placed after every element it does not sort strictly before
RECURSIVE Insert(_, _)
Insert(sorted, v) ==
  IF sorted = << >> THEN <<v>>
  ELSE IF Compare(v, Head(sorted)) < 0 THEN <<v>> \o sorted
  ELSE <<Head(sorted)>> \o Insert(Tail(sorted), v)

\* SortVideos with the sort left out
SortVideosOmitted(videos) == videos

\* line 74: Array.prototype.sort, a stable sort
RECURSIVE SortVideos(_)
SortVideos(videos) ==
  IF videos = << >> THEN << >>
  ELSE Insert(SortVideos(SubSeq(videos, 1, Len(videos) - 1)), videos[Len(videos)])

\* lines 47-74: the list searchYouTube returns for the detail call's items
ScoredVideos(items, now) == SortVideos([i \in 1..Len(items) |-> ToVideo(items[i], now)])

\* --------------------------------------------------------------- inputs
\* sequences of distinct video identifiers, at most n long
Distinct(l) == \A i, j \in 1..Len(l) : i # j => l[i] # l[j]
IdLists(n) == UNION {{l \in [1..k -> VideoIds] : Distinct(l)} : k \in 0..n}

\* the catalogue's items for these identifiers, in the order asked
ItemsOf(ids) == [i \in 1..Len(ids) |-> Catalogue[ids[i]]]

\* what the detail call answers for the main query's identifiers: their items,
\* or no items at all
DetailItems(ids) == {ItemsOf(ids), << >>}

\* what the detail call answers for a subtask's identifiers
SubtaskDetailItems(ids) == {ItemsOf(ids)}

\* lines 24 and 32: the search call answers with at most maxResults hits
SearchAnswer(hits, maxResults) == SubSeq(hits, 1, Min(maxResults, Len(hits)))

\* what the search call answers for a subtask's query: no hit, or the first
\* maxResults of its hits
SubtaskIdLists(maxResults) == {<< >>, SearchAnswer(SubtaskHits, maxResults)}

TopicInputs == {Undefined, Null, Num(0), Str(<< >>), Str(<<" ">>), Str(<<"Photosynthesis">>)}

GoodSubtask(i) ==
  [title |-> Str(<<"Subtask ", Digits[i]>>), searchQuery |-> Str(<<"query ", Digits[i]>>)]
GoodSubtasks(n) == [i \in 1..n |-> GoodSubtask(i)]
MainQueryText == Str(<<"main query">>)
Plan(subtasks, mainSearchQuery) == [subtasks |-> subtasks, mainSearchQuery |-> mainSearchQuery]

\* the JSON values the planner's text may encode
PlanInputs ==
  {Plan(Arr(GoodSubtasks(n)), MainQueryText) : n \in {0, 1, 2, MaxSubtasks}}
  \cup {Null, Num(7), Str(<<"a plan">>), Arr(<< >>),
        Plan(Undefined, Undefined),
        Plan(Undefined, MainQueryText),
        Plan(Null, MainQueryText),
        Plan(Str(<<"none">>), MainQueryText),
        Plan(Num(3), MainQueryText),
        Plan(Arr(GoodSubtasks(2)), Undefined),
        Plan(Arr(GoodSubtasks(1)), Num(7)),
        Plan(Arr(<<Null>>), MainQueryText),
        Plan(Arr(<<GoodSubtask(1), Null>>), MainQueryText),
        Plan(Arr(<<Str(<<"only a title">>), GoodSubtask(2)>>), MainQueryText),
        Plan(Arr(<<[title |-> Undefined, searchQuery |-> Str(<<"query 1">>)],
                   [title |-> Str(<<"Subtask 2">>), searchQuery |-> Undefined]>>), MainQueryText),
        Plan(Arr(<<[title |-> Str(<< >>), searchQuery |-> Str(<< >>)]>>), MainQueryText)}

\* the message contents the planner may answer with
ContentInputs ==
  {Str(<<JsonText(v)>>) : v \in PlanInputs}
  \cup {Undefined, Str(<< >>), Str(<<Space>>), Str(<<Prose>>), Str(<<Fence, JsonWord, Fence>>),
        Str(<<Prose, JsonText(Plan(Arr(GoodSubtasks(2)), MainQueryText))>>),
        Str(<<Fence, Space, JsonWord, JsonText(Plan(Arr(GoodSubtasks(2)), MainQueryText)), Fence>>),
        Str(<<Fence, JsonWord, Space, JsonText(Plan(Arr(GoodSubtasks(2)), MainQueryText)), Space, Fence>>),
        Str(<<Fence, JsonText(Plan(Arr(GoodSubtasks(1)), MainQueryText)), Fence, Space>>),
        Str(<<Space, Fence, JsonWord, JsonText(Null)>>),
        Str(<<Space, JsonText(Plan(Undefined, Undefined)), Space>>)}

\* line 150: a status for which aiResponse.ok holds
OkStatus == 200

AiErrorStatuses == {402, 429, 500, 503}
YouTubeErrorStatuses == {"403", "500"}

\* ---------------------------------------------------------------- state
VARIABLES
  pc,                 \* the await the handler is suspended at: "idle" (no request yet),
                      \* "planner", "mainSearch", "mainDetails", "subtasks", or "done"
  config,             \* which keys Deno.env holds
  now,                \* Date.now() during the request
  method,             \* req.method
  topic,              \* the topic of the request body
  bodyRead,           \* req.json() of line 93 has yielded the body
  plannerCalls,       \* requests sent to the AI gateway
  aiStatus,           \* aiResponse.status, 0 before the gateway has answered
  parseFailed,        \* the catch block of line 182 ran
  parsedData,
  mainQuery,          \* the query of the main searchYouTube call
  mainSearchCalls,    \* search requests sent for the main query
  mainDetailCalls,    \* detail requests sent for the main query
  mainSearchAnswer,   \* how the main query's search call was answered: "", "ok", "error"
  mainDetailAnswer,   \* how the main query's detail call was answered: "", "ok", "error"
  mainIds,            \* the identifiers the main search call returned
  mainItems,          \* the items the main detail call returned
  mainVideos,
  mainResult,         \* how the main searchYouTube call ended: "none" (not yet), "threw"
                      \* or "returned"
  branches,           \* the async callbacks of line 205, one per subtask
  subtasksWithVideos, \* the values Promise.all collects, by index
  response,
  hookVideos,         \* useVideoSearch: the videos state (hooks.ts line 76)
  hookLoading,        \* useVideoSearch: the loading state (line 77)
  hookError,          \* useVideoSearch: the error state (line 78)
  hookInFlight,       \* the findVideos calls awaiting their answer, counted by topic
  boardRow,           \* the user's leaderboard_stats row, NoRow before the first insert
  boardToday,         \* CURRENT_DATE, in days
  boardInserts        \* the quiz_results rows inserted for the user so far

vars == <<pc, config, now, method, topic, bodyRead, plannerCalls, aiStatus, parseFailed, parsedData,
          mainQuery, mainSearchCalls, mainDetailCalls, mainSearchAnswer, mainDetailAnswer,
          mainIds, mainItems, mainVideos,
          mainResult, branches, subtasksWithVideos, response,
          hookVideos, hookLoading, hookError, hookInFlight,
          boardRow, boardToday, boardInserts>>

handlerVars == <<pc, config, now, method, topic, bodyRead, plannerCalls, aiStatus, parseFailed,
                 parsedData, mainQuery, mainSearchCalls, mainDetailCalls, mainSearchAnswer,
                 mainDetailAnswer, mainIds, mainItems, mainVideos, mainResult, branches,
                 subtasksWithVideos, response>>

hookVars == <<hookVideos, hookLoading, hookError, hookInFlight>>

boardVars == <<boardRow, boardToday, boardInserts>>

\* the topics the component searches for
HookTopics == {"algebra", "optics"}

\* hooks.ts lines 76-78: the useState initial values; no call has been made
HookInitial ==
  /\ hookVideos = Null
  /\ hookLoading = FALSE
  /\ hookError = Null
  /\ hookInFlight = [t \in HookTopics |-> 0]

\* the user has no leaderboard_stats row yet
NoRow == [absent |-> TRUE]

BoardInitial ==
  /\ boardRow = NoRow
  /\ boardToday = 0
  /\ boardInserts = 0

\* lines 3-6
corsHeaders == [allowOrigin |-> "*",
                allowHeaders |-> "authorization, x-client-info, apikey, content-type"]

NoResponse == [status |-> 0]
Pending == [pending |-> TRUE]

JsonResponse(status, body) ==
  [status |-> status, cors |-> corsHeaders, contentType |-> "application/json", body |-> body]

ErrorResponse(status, message) == JsonResponse(status, [error |-> message])

Init ==
  /\ pc = "idle"
  /\ config \in [youtube_api_key : BOOLEAN, LOVABLE_API_KEY : BOOLEAN]
  /\ now \in NowInputs
  /\ method = ""
  /\ topic = Undefined
  /\ bodyRead = FALSE
  /\ plannerCalls = 0
  /\ aiStatus = 0
  /\ parseFailed = FALSE
  /\ parsedData = Undefined
  /\ mainQuery = Undefined
  /\ mainSearchCalls = 0
  /\ mainDetailCalls = 0
  /\ mainSearchAnswer = ""
  /\ mainDetailAnswer = ""
  /\ mainIds = << >>
  /\ mainItems = << >>
  /\ mainVideos = << >>
  /\ mainResult = "none"
  /\ branches = << >>
  /\ subtasksWithVideos = << >>
  /\ response = NoResponse
  /\ HookInitial
  /\ BoardInitial

\* the handler returns a response
Respond(r) == response' = r /\ pc' = "done"

\* ------------------------------------------------- request validation
\* Options without the early return of lines 88-90: the request, which has
\* no body, goes on to req.json()
OptionsUnhandled ==
  /\ pc = "idle"
  /\ method' = "OPTIONS"
  /\ Respond(ErrorResponse(500, <<"Unexpected end of JSON input">>))
  /\ UNCHANGED <<config, hookVars, boardVars, now, topic, bodyRead, plannerCalls, aiStatus, parseFailed, parsedData, mainQuery,
                 mainSearchCalls, mainDetailCalls, mainIds, mainSearchAnswer,
                 mainDetailAnswer, mainItems, mainVideos,
                 mainResult, branches, subtasksWithVideos>>

\* lines 88-90
Options ==
  /\ pc = "idle"
  /\ method' = "OPTIONS"
  /\ Respond([status |-> 200, cors |-> corsHeaders, contentType |-> "", body |-> Null])
  /\ UNCHANGED <<config, hookVars, boardVars, now, topic, bodyRead, plannerCalls, aiStatus, parseFailed, parsedData, mainQuery,
                 mainSearchCalls, mainDetailCalls, mainIds, mainSearchAnswer,
                 mainDetailAnswer, mainItems, mainVideos,
                 mainResult, branches, subtasksWithVideos>>

\* UnreadableBody answered as a missing topic
UnreadableBodyAs400 ==
  /\ pc = "idle"
  /\ method' = "POST"
  /\ Respond(ErrorResponse(400, <<"Topic is required">>))
  /\ UNCHANGED <<config, hookVars, boardVars, now, topic, bodyRead, plannerCalls, aiStatus, parseFailed, parsedData, mainQuery,
                 mainSearchCalls, mainDetailCalls, mainIds, mainSearchAnswer,
                 mainDetailAnswer, mainItems, mainVideos,
                 mainResult, branches, subtasksWithVideos>>

\* line 93: req.json() rejects, or yields null and the destructuring throws;
\* the catch of line 243 answers
UnreadableBody ==
  /\ pc = "idle"
  /\ method' = "POST"
  /\ Respond(ErrorResponse(500, <<"Unexpected end of JSON input">>))
  /\ UNCHANGED <<config, hookVars, boardVars, now, topic, bodyRead, plannerCalls, aiStatus, parseFailed, parsedData, mainQuery,
                 mainSearchCalls, mainDetailCalls, mainIds, mainSearchAnswer,
                 mainDetailAnswer, mainItems, mainVideos,
                 mainResult, branches, subtasksWithVideos>>

\* TopicRejected testing for an absent property only
TopicRejectedIfAbsent(t) == t = Undefined

\* line 95: !topic
TopicRejected(t) == ~Truthy(t)

\* lines 93-148: a readable body with topic t, up to the await of the planner call
Post(t) ==
  /\ pc = "idle"
  /\ method' = "POST"
  /\ bodyRead' = TRUE
  /\ topic' = t
  /\ IF TopicRejected(t)
        THEN Respond(ErrorResponse(400, <<"Topic is required">>)) /\ UNCHANGED plannerCalls
      ELSE IF ~config.youtube_api_key
        THEN Respond(ErrorResponse(500, <<"YouTube API key is not configured">>))
             /\ UNCHANGED plannerCalls
      ELSE IF ~config.LOVABLE_API_KEY
        THEN Respond(ErrorResponse(500, <<"LOVABLE_API_KEY is not configured">>))
             /\ UNCHANGED plannerCalls
      ELSE /\ plannerCalls' = plannerCalls + 1
           /\ pc' = "planner"
           /\ UNCHANGED response
  /\ UNCHANGED <<config, hookVars, boardVars, now, aiStatus, parseFailed, parsedData, mainQuery,
                 mainSearchCalls, mainDetailCalls, mainIds, mainSearchAnswer,
                 mainDetailAnswer, mainItems, mainVideos,
                 mainResult, branches, subtasksWithVideos>>

\* ------------------------------------------------------------ the planner
\* lines 150-167: the gateway answers with a non-OK status
\* NonOkResponse without the branches on 429 and 402
NonOkResponseUnmapped(status) == ErrorResponse(500, <<"AI gateway error">>)

\* lines 150-167: the response to a non-OK status of the gateway; the throw of
\* line 166 is answered by the catch of line 243
NonOkResponse(status) ==
  IF status = 429
    THEN ErrorResponse(429, <<"Rate limit exceeded. Please try again later.">>)
  ELSE IF status = 402
    THEN ErrorResponse(402, <<"Payment required. Please add credits.">>)
  ELSE ErrorResponse(500, <<"AI gateway error">>)

\* PlannerError treating a non-OK answer like an unparsable plan: the
\* fallback plan is used and the main search is sent
PlannerErrorFallsBack(status) ==
  /\ pc = "planner"
  /\ aiStatus' = status
  /\ parseFailed' = TRUE
  /\ parsedData' = FallbackPlan(topic)
  /\ mainQuery' = Or(Prop(parsedData', "mainSearchQuery"), Str(ToStr(topic) \o <<" tutorial">>))
  /\ mainSearchCalls' = mainSearchCalls + 1
  /\ pc' = "mainSearch"
  /\ UNCHANGED <<config, hookVars, boardVars, now, method, topic, bodyRead, plannerCalls, response,
                 mainDetailCalls, mainIds, mainSearchAnswer,
                 mainDetailAnswer, mainItems, mainVideos,
                 mainResult, branches, subtasksWithVideos>>

PlannerError(status) ==
  /\ pc = "planner"
  /\ aiStatus' = status
  /\ Respond(NonOkResponse(status))
  /\ UNCHANGED <<config, hookVars, boardVars, now, method, topic, bodyRead, plannerCalls, parseFailed, parsedData, mainQuery,
                 mainSearchCalls, mainDetailCalls, mainIds, mainSearchAnswer,
                 mainDetailAnswer, mainItems, mainVideos,
                 mainResult, branches, subtasksWithVideos>>

\* line 169: the gateway answers OK with a body that is no JSON
PlannerUnreadable ==
  /\ pc = "planner"
  /\ aiStatus' = OkStatus
  /\ Respond(ErrorResponse(500, <<"Unexpected token in JSON">>))
  /\ UNCHANGED <<config, hookVars, boardVars, now, method, topic, bodyRead, plannerCalls, parseFailed, parsedData, mainQuery,
                 mainSearchCalls, mainDetailCalls, mainIds, mainSearchAnswer,
                 mainDetailAnswer, mainItems, mainVideos,
                 mainResult, branches, subtasksWithVideos>>

\* line 196: the query of the main search
MainQueryOf(plan, t) == Or(Prop(plan, "mainSearchQuery"), Str(ToStr(t) \o <<" tutorial">>))

\* lines 169-196 and 18-24: the gateway answers OK with message content `content`;
\* the plan is parsed and the main search call is sent. Reading a property of
\* null is a TypeError, which the catch of line 243 answers.
PlannerOk(content) ==
  /\ pc = "planner"
  /\ aiStatus' = OkStatus
  /\ parseFailed' = ParseThrows(content)
  /\ parsedData' = ParsePlan(content, topic)
  /\ IF IsNullish(parsedData')
        THEN /\ Respond(ErrorResponse(500, <<"TypeError: Cannot read properties of null">>))
             /\ UNCHANGED <<mainQuery, mainSearchCalls>>
        ELSE /\ mainQuery' = MainQueryOf(parsedData', topic)
             /\ mainSearchCalls' = mainSearchCalls + 1
             /\ pc' = "mainSearch"
             /\ UNCHANGED response
  /\ UNCHANGED <<config, hookVars, boardVars, now, method, topic, bodyRead, plannerCalls,
                 mainDetailCalls, mainIds, mainSearchAnswer,
                 mainDetailAnswer, mainItems, mainVideos,
                 mainResult, branches, subtasksWithVideos>>

\* -------------------------------------------------------- the main search
\* NoVideosFound answering with an empty result instead of an error
NoVideosFoundPartial == JsonResponse(200, [videoId |-> Null, subtasks |-> << >>])

\* lines 199-201 and 243-249: no primary video
NoVideosFound == ErrorResponse(500, <<"No videos found for this topic">>)

\* MainSearchError with the search call sent again instead of failing the request
MainSearchErrorRetried(status) ==
  /\ pc = "mainSearch"
  /\ mainSearchAnswer' = "error"
  /\ mainResult' = "threw"
  /\ mainSearchCalls' = mainSearchCalls + 1
  /\ UNCHANGED <<pc, response, config, hookVars, boardVars, now, method, topic, bodyRead, plannerCalls, aiStatus, parseFailed,
                 parsedData, mainQuery, mainDetailCalls, mainIds, mainDetailAnswer, mainItems, mainVideos,
                 branches, subtasksWithVideos>>

\* lines 25-29: the search call answers with a non-OK status; searchYouTube
\* throws and the catch of line 243 answers
MainSearchError(status) ==
  /\ pc = "mainSearch"
  /\ mainSearchAnswer' = "error"
  /\ mainResult' = "threw"
  /\ Respond(ErrorResponse(500, <<"YouTube API error: ", status>>))
  /\ UNCHANGED <<config, hookVars, boardVars, now, method, topic, bodyRead, plannerCalls, aiStatus, parseFailed, parsedData, mainQuery,
                 mainSearchCalls, mainDetailCalls, mainIds, mainDetailAnswer, mainItems, mainVideos,
                 branches, subtasksWithVideos>>

\* MainSearchOk without the early return of lines 34-36: the detail call is
\* sent whatever the identifiers are
MainSearchOkUnguarded(ids) ==
  /\ pc = "mainSearch"
  /\ mainSearchAnswer' = "ok"
  /\ mainIds' = ids
  /\ mainDetailCalls' = mainDetailCalls + 1
  /\ pc' = "mainDetails"
  /\ UNCHANGED <<mainResult, response, config, hookVars, boardVars, now, method, topic, bodyRead, plannerCalls,
                 aiStatus, parseFailed, parsedData, mainQuery,
                 mainSearchCalls, mainDetailAnswer, mainItems, mainVideos, branches,
                 subtasksWithVideos>>

\* lines 31-41 and 197-201: the search call answers OK with identifiers ids; with
\* none, searchYouTube returns [] and there is no primary video
MainSearchOk(ids) ==
  /\ pc = "mainSearch"
  /\ mainSearchAnswer' = "ok"
  /\ mainIds' = ids
  /\ IF ids = << >>
        THEN /\ mainResult' = "returned"
             /\ Respond(NoVideosFound)
             /\ UNCHANGED mainDetailCalls
        ELSE /\ mainDetailCalls' = mainDetailCalls + 1
             /\ pc' = "mainDetails"
             /\ UNCHANGED <<mainResult, response>>
  /\ UNCHANGED <<config, hookVars, boardVars, now, method, topic, bodyRead, plannerCalls, aiStatus, parseFailed, parsedData, mainQuery,
                 mainSearchCalls, mainDetailAnswer, mainItems, mainVideos, branches,
                 subtasksWithVideos>>

\* MainDetailsError with the failure swallowed: searchYouTube returns an empty
\* list and the handler finds no primary video
MainDetailsErrorSwallowed ==
  /\ pc = "mainDetails"
  /\ mainDetailAnswer' = "error"
  /\ mainResult' = "returned"
  /\ Respond(NoVideosFound)
  /\ UNCHANGED <<config, hookVars, boardVars, now, method, topic, bodyRead, plannerCalls, aiStatus, parseFailed,
                 parsedData, mainQuery, mainSearchCalls, mainDetailCalls, mainIds,
                 mainSearchAnswer, mainItems, mainVideos, branches, subtasksWithVideos>>

\* lines 42-45: the detail call answers with a non-OK status
MainDetailsError ==
  /\ pc = "mainDetails"
  /\ mainDetailAnswer' = "error"
  /\ mainResult' = "threw"
  /\ Respond(ErrorResponse(500, <<"Failed to get video details">>))
  /\ UNCHANGED <<config, hookVars, boardVars, now, method, topic, bodyRead, plannerCalls, aiStatus, parseFailed, parsedData, mainQuery,
                 mainSearchCalls, mainDetailCalls, mainIds, mainSearchAnswer, mainItems, mainVideos,
                 branches, subtasksWithVideos>>

\* ------------------------------------------------------------ the fan-out
\* line 207: the query of a subtask's search
SubtaskQuery(subtask, t) ==
  Or(Prop(subtask, "searchQuery"),
     Str(ToStr(t) \o <<" ">> \o ToStr(Prop(subtask, "title"))))

\* lines 205-207: the callback runs up to its first await: the search call is
\* sent. For a null subtask, the try block and then the catch block throw a
\* TypeError and the callback's promise is rejected.
StartBranch(subtask, t) ==
  IF IsNullish(subtask)
    THEN [pc |-> "rejected", subtask |-> subtask, query |-> Undefined,
          maxResults |-> SubtaskMaxResults, searchCalls |-> 0, detailCalls |-> 0,
          searchAnswer |-> "", detailAnswer |-> "", ids |-> << >>, failed |-> FALSE]
    ELSE [pc |-> "search", subtask |-> subtask, query |-> SubtaskQuery(subtask, t),
          maxResults |-> SubtaskMaxResults, searchCalls |-> 1, detailCalls |-> 0,
          searchAnswer |-> "", detailAnswer |-> "", ids |-> << >>, failed |-> FALSE]

\* RankedVideos numbering the reasons with the index i instead of i + 1
RankedVideosZeroBased(videos) ==
  [i \in 1..Len(videos) |->
     [videoId |-> videos[i].videoId,
      title |-> videos[i].title,
      channel |-> videos[i].channel,
      views |-> videos[i].viewCount,
      engagementScore |-> videos[i].engagementScore,
      reason |-> IF i = 1 THEN <<"Highest engagement for this topic">>
                 ELSE <<"Recommended video #", Digits[i - 1]>>]]

\* lines 211-218; i counts from 1 here, so that the code's i + 1 is i
RankedVideos(videos) ==
  [i \in 1..Len(videos) |->
     [videoId |-> videos[i].videoId,
      title |-> videos[i].title,
      channel |-> videos[i].channel,
      views |-> videos[i].viewCount,
      engagementScore |-> videos[i].engagementScore,
      reason |-> IF i = 1 THEN <<"Highest engagement for this topic">>
                 ELSE <<"Recommended video #", Digits[i]>>]]

\* lines 208-219 and 222-226: what a callback returns; idx counts from 1
SubtaskResult(subtask, idx, videos) ==
  [title |-> Or(Prop(subtask, "title"), Str(<<"Part ", Digits[idx]>>)),
   description |-> Or(Prop(subtask, "searchQuery"), Str(<< >>)),
   videos |-> videos]

\* SlicedSubtasks without .slice(0, 5)
SlicedSubtasksUncut(plan) == Or(Prop(plan, "subtasks"), Arr(<< >>)).arr

\* line 205: (parsedData.subtasks || []).slice(0, 5)
SlicedSubtasks(plan) ==
  LET subtasks == Or(Prop(plan, "subtasks"), Arr(<< >>))
  IN  SubSeq(subtasks.arr, 1, Min(SubtaskLimit, Len(subtasks.arr)))

\* .slice(0, 5).map(...) is a TypeError unless the value is an array
SliceThrows(plan) == ~IsArr(Or(Prop(plan, "subtasks"), Arr(<< >>)))

\* lines 233-242
SuccessResponse(primaryVideo, t, subtasks) ==
  JsonResponse(200,
    [videoId |-> primaryVideo.videoId,
     title |-> primaryVideo.title,
     channel |-> primaryVideo.channel,
     reason |-> [text |-> <<"Best educational video for ">> \o ToStr(t) \o <<" with views ">>,
                 views |-> primaryVideo.viewCount],
     subtasks |-> subtasks])

\* StoreValue keeping the values in the order they arrive
StoreValueByArrival(values, idx, value) ==
  LET first == CHOOSE j \in 1..Len(values) :
                 values[j] = Pending /\ \A k \in 1..(j - 1) : values[k] # Pending
  IN  [values EXCEPT ![first] = value]

\* Promise.all keeps each fulfilled value at the index of its promise
StoreValue(values, idx, value) == [values EXCEPT ![idx] = value]

\* lines 47-74, 197-229: the detail call answers OK with items; the videos are
\* scored and sorted, the first one is the primary video, and every subtask's
\* callback is started
MainDetailsOk(items) ==
  /\ pc = "mainDetails"
  /\ mainDetailAnswer' = "ok"
  /\ mainItems' = items
  /\ mainVideos' = ScoredVideos(items, now)
  /\ mainResult' = "returned"
  /\ IF mainVideos' = << >>
        THEN /\ Respond(NoVideosFound)
             /\ UNCHANGED <<branches, subtasksWithVideos>>
      ELSE IF SliceThrows(parsedData)
        THEN /\ Respond(ErrorResponse(500, <<"TypeError: slice(...).map is not a function">>))
             /\ UNCHANGED <<branches, subtasksWithVideos>>
      ELSE LET subtasks == SlicedSubtasks(parsedData)
           IN  /\ branches' = [i \in 1..Len(subtasks) |-> StartBranch(subtasks[i], topic)]
               /\ subtasksWithVideos' = [i \in 1..Len(subtasks) |-> Pending]
               /\ IF \E i \in 1..Len(subtasks) : branches'[i].pc = "rejected"
                     THEN Respond(ErrorResponse(500, <<"TypeError: Cannot read properties of null">>))
                   ELSE IF subtasks = << >>
                     THEN Respond(SuccessResponse(mainVideos'[1], topic, << >>))
                   ELSE pc' = "subtasks" /\ UNCHANGED response
  /\ UNCHANGED <<config, hookVars, boardVars, now, method, topic, bodyRead, plannerCalls, aiStatus, parseFailed, parsedData, mainQuery,
                 mainSearchCalls, mainDetailCalls, mainIds, mainSearchAnswer>>

\* Settle without the try/catch of lines 206-227: a search that threw rejects
\* Promise.all and the catch of line 243 answers
SettleFailFast(i, value) ==
  LET values == StoreValue(subtasksWithVideos, i, value)
  IN  /\ subtasksWithVideos' = values
      /\ IF branches'[i].failed
            THEN Respond(ErrorResponse(500, <<"YouTube API error">>))
          ELSE IF \A j \in 1..Len(values) : values[j] # Pending
            THEN Respond(SuccessResponse(mainVideos[1], topic, values))
            ELSE UNCHANGED <<pc, response>>

\* a callback returns `value`: Promise.all stores it, and once every callback
\* has returned the handler resumes at line 231 and answers
Settle(i, value) ==
  LET values == StoreValue(subtasksWithVideos, i, value)
  IN  /\ subtasksWithVideos' = values
      /\ IF \A j \in 1..Len(values) : values[j] # Pending
            THEN Respond(SuccessResponse(mainVideos[1], topic, values))
            ELSE UNCHANGED <<pc, response>>

\* SubSearchError with the search call sent again
SubSearchErrorRetried(i) ==
  /\ pc = "subtasks"
  /\ i \in 1..Len(branches)
  /\ branches[i].pc = "search"
  /\ branches' = [branches EXCEPT ![i].searchAnswer = "error", ![i].searchCalls = @ + 1]
  /\ UNCHANGED <<pc, response, subtasksWithVideos, config, hookVars, boardVars, now, method, topic, bodyRead,
                 plannerCalls, aiStatus, parseFailed, parsedData, mainQuery,
                 mainSearchCalls, mainDetailCalls, mainIds, mainSearchAnswer,
                 mainDetailAnswer, mainItems, mainVideos, mainResult>>

\* lines 25-29 and 220-227: a subtask's search call answers with a non-OK status
SubSearchError(i) ==
  /\ pc = "subtasks"
  /\ i \in 1..Len(branches)
  /\ branches[i].pc = "search"
  /\ branches' = [branches EXCEPT ![i].searchAnswer = "error", ![i].pc = "done",
                                   ![i].failed = TRUE]
  /\ Settle(i, SubtaskResult(branches[i].subtask, i, << >>))
  /\ UNCHANGED <<config, hookVars, boardVars, now, method, topic, bodyRead, plannerCalls, aiStatus, parseFailed, parsedData, mainQuery,
                 mainSearchCalls, mainDetailCalls, mainIds, mainSearchAnswer,
                 mainDetailAnswer, mainItems, mainVideos, mainResult>>

\* lines 31-41: a subtask's search call answers OK with identifiers ids
SubSearchOk(i, ids) ==
  /\ pc = "subtasks"
  /\ i \in 1..Len(branches)
  /\ branches[i].pc = "search"
  /\ IF ids = << >>
        THEN /\ branches' = [branches EXCEPT ![i].searchAnswer = "ok", ![i].pc = "done"]
             /\ Settle(i, SubtaskResult(branches[i].subtask, i, RankedVideos(<< >>)))
        ELSE /\ branches' = [branches EXCEPT ![i].searchAnswer = "ok", ![i].pc = "details",
                                              ![i].ids = ids,
                                              ![i].detailCalls = @ + 1]
             /\ UNCHANGED <<subtasksWithVideos, pc, response>>
  /\ UNCHANGED <<config, hookVars, boardVars, now, method, topic, bodyRead, plannerCalls, aiStatus, parseFailed, parsedData, mainQuery,
                 mainSearchCalls, mainDetailCalls, mainIds, mainSearchAnswer,
                 mainDetailAnswer, mainItems, mainVideos, mainResult>>

\* SubDetailsError with the failure escaping the callback: Promise.all
\* rejects and the catch of line 243 answers
SubDetailsErrorEscapes(i) ==
  /\ pc = "subtasks"
  /\ i \in 1..Len(branches)
  /\ branches[i].pc = "details"
  /\ branches' = [branches EXCEPT ![i].detailAnswer = "error", ![i].pc = "done",
                                   ![i].failed = TRUE]
  /\ Respond(ErrorResponse(500, <<"Failed to get video details">>))
  /\ UNCHANGED <<subtasksWithVideos, config, hookVars, boardVars, now, method, topic, bodyRead,
                 plannerCalls, aiStatus, parseFailed, parsedData, mainQuery,
                 mainSearchCalls, mainDetailCalls, mainIds, mainSearchAnswer,
                 mainDetailAnswer, mainItems, mainVideos, mainResult>>

\* lines 42-45 and 220-227: a subtask's detail call answers with a non-OK status
SubDetailsError(i) ==
  /\ pc = "subtasks"
  /\ i \in 1..Len(branches)
  /\ branches[i].pc = "details"
  /\ branches' = [branches EXCEPT ![i].detailAnswer = "error", ![i].pc = "done",
                                   ![i].failed = TRUE]
  /\ Settle(i, SubtaskResult(branches[i].subtask, i, << >>))
  /\ UNCHANGED <<config, hookVars, boardVars, now, method, topic, bodyRead, plannerCalls, aiStatus, parseFailed, parsedData, mainQuery,
                 mainSearchCalls, mainDetailCalls, mainIds, mainSearchAnswer,
                 mainDetailAnswer, mainItems, mainVideos, mainResult>>

\* lines 47-74 and 208-219: a subtask's detail call answers OK with items
SubDetailsOk(i, items) ==
  /\ pc = "subtasks"
  /\ i \in 1..Len(branches)
  /\ branches[i].pc = "details"
  /\ branches' = [branches EXCEPT ![i].detailAnswer = "ok", ![i].pc = "done"]
  /\ Settle(i, SubtaskResult(branches[i].subtask, i, RankedVideos(ScoredVideos(items, now))))
  /\ UNCHANGED <<config, hookVars, boardVars, now, method, topic, bodyRead, plannerCalls, aiStatus, parseFailed, parsedData, mainQuery,
                 mainSearchCalls, mainDetailCalls, mainIds, mainSearchAnswer,
                 mainDetailAnswer, mainItems, mainVideos, mainResult>>

Next ==
  \/ Options
  \/ UnreadableBody
  \/ \E t \in TopicInputs : Post(t)
  \/ \E status \in AiErrorStatuses : PlannerError(status)
  \/ PlannerUnreadable
  \/ \E content \in ContentInputs : PlannerOk(content)
  \/ \E status \in YouTubeErrorStatuses : MainSearchError(status)
  \/ \E ids \in IdLists(MaxMainIds) : MainSearchOk(ids)
  \/ MainDetailsError
  \/ \E items \in DetailItems(mainIds) : MainDetailsOk(items)
  \/ \E i \in 1..Len(branches) : SubSearchError(i)
  \/ \E i \in 1..Len(branches) :
       \E ids \in SubtaskIdLists(branches[i].maxResults) : SubSearchOk(i, ids)
  \/ \E i \in 1..Len(branches) : SubDetailsError(i)
  \/ \E i \in 1..Len(branches) : \E items \in SubtaskDetailItems(branches[i].ids) : SubDetailsOk(i, items)

Spec == Init /\ [][Next]_vars

\* ------------------------------------------- the handler under fairness
\* The same actions over fewer inputs: one topic and main searches of at most
\* one hit, the fan-out being left as it is.
FairTopicInputs == {Undefined, Str(<<"Photosynthesis">>)}
FairMainIdLists == {<< >>, <<"v1">>, <<"v2">>}

\* a request arrives
RequestReceived ==
  \/ Options
  \/ UnreadableBody
  \/ \E t \in FairTopicInputs : Post(t)

\* an external call that is awaited resolves or errors
CallAnswered ==
  \/ \E status \in AiErrorStatuses : PlannerError(status)
  \/ PlannerUnreadable
  \/ \E content \in ContentInputs : PlannerOk(content)
  \/ \E status \in YouTubeErrorStatuses : MainSearchError(status)
  \/ \E ids \in FairMainIdLists : MainSearchOk(ids)
  \/ MainDetailsError
  \/ \E items \in DetailItems(mainIds) : MainDetailsOk(items)
  \/ \E i \in 1..Len(branches) : SubSearchError(i)
  \/ \E i \in 1..Len(branches) :
       \E ids \in SubtaskIdLists(branches[i].maxResults) : SubSearchOk(i, ids)
  \/ \E i \in 1..Len(branches) : SubDetailsError(i)
  \/ \E i \in 1..Len(branches) : \E items \in SubtaskDetailItems(branches[i].ids) : SubDetailsOk(i, items)

FairNext == RequestReceived \/ CallAnswered

\* the handler under the assumption that no awaited external call stays
\* unanswered for ever
FairSpec == Init /\ [][FairNext]_vars /\ WF_vars(CallAnswered)

\* ================================================== searchYouTube alone
\* The scoring of lines 47-74 applied to detail items of arbitrary statistics:
\* the detail call has answered with two items, and searchYouTube maps and
\* sorts them. The variables of the handler that the function does not touch
\* keep their initial values.

\* view counts around the rounding, bonus and clamp boundaries
ScoreViews == {0, 1, 47, 48, 49, 2999, 3001, 99999, 100000, 100001, 199000, 200000, 400000}

\* like counts, Hidden for a video that hides them
ScoreLikes == {Hidden, 0, 1, 99, 100, 9990, 10000, 10001}

\* hours since publication: a future date, the same instant, half a day, one
\* day, a day and a half, two days, thirty days
ScoreAges == {-24, 0, 12, 24, 36, 48, 720}

ScoreItem(id, viewCount, likeCount, publishedAt) ==
  [Catalogue[id] EXCEPT !.viewCount = viewCount, !.likeCount = likeCount,
                        !.publishedAt = publishedAt]

\* two items of the same age that differ at most in one of the two counts
ScoreItemPairs(t) ==
  {<<ScoreItem("v1", v1, l1, t - age), ScoreItem("v2", v2, l2, t - age)>> :
     <<v1, l1, v2, l2, age>> \in
       {q \in ScoreViews \X ScoreLikes \X ScoreViews \X ScoreLikes \X ScoreAges :
          q[1] = q[3] \/ q[2] = q[4]}}

ScoreInit ==
  /\ config = [youtube_api_key |-> TRUE, LOVABLE_API_KEY |-> TRUE]
  /\ now \in NowInputs
  /\ pc = "score"
  /\ mainIds = <<"v1", "v2">>
  /\ mainItems \in ScoreItemPairs(now)
  /\ mainVideos = << >>
  /\ mainResult = "none"
  /\ method = ""
  /\ topic = Undefined
  /\ bodyRead = FALSE
  /\ plannerCalls = 0
  /\ aiStatus = 0
  /\ parseFailed = FALSE
  /\ parsedData = Undefined
  /\ mainQuery = Undefined
  /\ mainSearchCalls = 0
  /\ mainDetailCalls = 0
  /\ mainSearchAnswer = ""
  /\ mainDetailAnswer = ""
  /\ branches = << >>
  /\ subtasksWithVideos = << >>
  /\ response = NoResponse
  /\ HookInitial
  /\ BoardInitial

\* lines 47-74: the items are mapped to scored videos and sorted
Score ==
  /\ pc = "score"
  /\ mainVideos' = ScoredVideos(mainItems, now)
  /\ mainResult' = "returned"
  /\ pc' = "scored"
  /\ UNCHANGED <<config, hookVars, boardVars, now, method, topic, bodyRead, plannerCalls, aiStatus, parseFailed,
                 parsedData, mainQuery, mainSearchCalls, mainDetailCalls, mainIds, mainSearchAnswer,
                 mainDetailAnswer, mainItems,
                 branches, subtasksWithVideos, response>>

ScoreNext == Score

ScoreSpec == ScoreInit /\ [][ScoreNext]_vars

\* ------------------------------------------------ the useVideoSearch hook
(***************************************************************************)
(* src/src/integrations/bytez/hooks.ts lines 75-103.  useNotesQuiz (lines  *)
(* 30-63) and useGenerateNotes (lines 115-146) are the same code with      *)
(* questions and notes in the place of videos.  findVideos is an async     *)
(* function: its lines 81-82 run when it is called, the rest runs when     *)
(* the awaited call of line 86 is answered, and nothing stops the          *)
(* component calling it again in between.  The state updates of one        *)
(* synchronous stretch are taken as one step.                              *)
(***************************************************************************)

\* what the awaited call resolves with: the hook reads its videos and error
ApiAnswers(t) ==
  { [videos |-> Arr(<<t>>), error |-> Undefined],
    [videos |-> Arr(<< >>), error |-> Undefined],
    [videos |-> Undefined, error |-> Undefined],
    [videos |-> Undefined, error |-> Str(<<t, "request failed">>)] }

\* what the awaited call rejects with: an Error with a message, or something else
ApiRejections == { [isError |-> TRUE, message |-> <<"Failed to fetch">>],
                   [isError |-> FALSE, message |-> << >>] }

InFlightCount == hookInFlight["algebra"] + hookInFlight["optics"]

\* the awaited call of one findVideos(t) settles
Settled(t) ==
  /\ hookInFlight[t] > 0
  /\ hookInFlight' = [hookInFlight EXCEPT ![t] = @ - 1]

\* lines 80-86: findVideos is called; it sets loading, clears error and awaits
FindVideos(t) ==
  /\ InFlightCount < MaxInFlight
  /\ hookLoading' = TRUE
  /\ hookError' = Null
  /\ hookInFlight' = [hookInFlight EXCEPT ![t] = @ + 1]
  /\ UNCHANGED <<hookVideos, handlerVars, boardVars>>

\* lines 88-90 and 97-99: the answer carries an error
ApiErrorStored(t, a) ==
  /\ Settled(t)
  /\ Truthy(a.error)
  /\ hookError' = a.error
  /\ hookVideos' = Null
  /\ hookLoading' = FALSE
  /\ UNCHANGED <<handlerVars, boardVars>>

\* lines 91-93 and 97-99: the answer carries no error; foundVideos || null is stored
VideosStored(t, a) ==
  /\ Settled(t)
  /\ ~Truthy(a.error)
  /\ hookVideos' = (IF Truthy(a.videos) THEN a.videos ELSE Null)
  /\ hookLoading' = FALSE
  /\ UNCHANGED <<hookError, handlerVars, boardVars>>

\* lines 94-99: the awaited call rejects
CallRejected(t, x) ==
  /\ Settled(t)
  /\ hookError' = (IF x.isError THEN Str(x.message) ELSE Str(<<"Failed to find videos">>))
  /\ hookVideos' = Null
  /\ hookLoading' = FALSE
  /\ UNCHANGED <<handlerVars, boardVars>>

HookInit ==
  /\ Init
  /\ config = [youtube_api_key |-> TRUE, LOVABLE_API_KEY |-> TRUE]
  /\ now = UnitsPerDay

HookNext ==
  \E t \in HookTopics :
    \/ FindVideos(t)
    \/ \E a \in ApiAnswers(t) : ApiErrorStored(t, a)
    \/ \E a \in ApiAnswers(t) : VideosStored(t, a)
    \/ \E x \in ApiRejections : CallRejected(t, x)

HookSpec == HookInit /\ [][HookNext]_vars

\* ------------------------------------------- update_leaderboard_on_quiz
(***************************************************************************)
(* src/unnamed/part_004 lines 13-77: the plpgsql trigger function that     *)
(* keeps one leaderboard_stats row per user.  It runs once for each        *)
(* quiz_results row inserted, one run after the other; the row starts      *)
(* absent and only this function writes it.  Dates are day numbers,        *)
(* average_score is kept in tenths of a percent.                           *)
(***************************************************************************)

\* the inserted quiz_results rows: correct_answers, total_questions, score
QuizResults == { [correct_answers |-> 1, total_questions |-> 2, score |-> 50],
                 [correct_answers |-> 2, total_questions |-> 2, score |-> 100] }

\* SqlNull: the user has no profiles row, or its name is NULL
SqlNull == [sqlnull |-> TRUE]
ProfileNames == {SqlNull, Str(<<"Ada">>)}

\* COALESCE(a, b)
Coalesce(a, b) == IF a = SqlNull THEN b ELSE a

\* ROUND(num::numeric / den * 100, 1), in tenths; num >= 0, den > 0
RoundedPercentTenths(num, den) == (2 * 1000 * num + den) \div (2 * den)

\* variant: a gap does not reset the streak
NewStreakAcrossGap(row, v_today) ==
  IF row = NoRow THEN 1
  ELSE IF row.last_activity_date = v_today THEN row.current_streak
  ELSE row.current_streak + 1

\* lines 31-49: v_new_streak.  A row this function wrote has neither a NULL
\* last_activity_date nor a NULL current_streak, so v_last_date is NULL
\* exactly when the user has no row
NewStreak(row, v_today) ==
  IF row = NoRow THEN 1
  ELSE IF row.last_activity_date = v_today THEN row.current_streak
  ELSE IF row.last_activity_date = v_today - 1 THEN row.current_streak + 1
  ELSE 1

\* lines 52-59: the VALUES of the INSERT, used when the user has no row
InsertedRow(v_display_name, new, v_new_streak, v_today) ==
  [display_name |-> Coalesce(v_display_name, Str(<<"Anonymous">>)),
   total_quizzes |-> 1,
   total_correct |-> new.correct_answers,
   total_questions |-> new.total_questions,
   average_score |-> 10 * new.score,
   best_score |-> new.score,
   current_streak |-> v_new_streak,
   longest_streak |-> v_new_streak,
   last_activity_date |-> v_today]

\* lines 60-73: ON CONFLICT (user_id) DO UPDATE
UpdatedRow(row, v_display_name, new, v_new_streak, v_today) ==
  [display_name |-> Coalesce(v_display_name, row.display_name),
   total_quizzes |-> row.total_quizzes + 1,
   total_correct |-> row.total_correct + new.correct_answers,
   total_questions |-> row.total_questions + new.total_questions,
   average_score |-> RoundedPercentTenths(row.total_correct + new.correct_answers,
                                          row.total_questions + new.total_questions),
   best_score |-> Max(row.best_score, new.score),
   current_streak |-> v_new_streak,
   longest_streak |-> Max(row.longest_streak, v_new_streak),
   last_activity_date |-> v_today]

\* lines 13-77: one run of the trigger function for the inserted row new
QuizInserted(new, v_display_name) ==
  /\ boardInserts < MaxInserts
  /\ boardInserts' = boardInserts + 1
  /\ LET v_today == boardToday
         v_new_streak == NewStreak(boardRow, v_today)
     IN boardRow' = IF boardRow = NoRow
                    THEN InsertedRow(v_display_name, new, v_new_streak, v_today)
                    ELSE UpdatedRow(boardRow, v_display_name, new, v_new_streak, v_today)
  /\ UNCHANGED <<boardToday, handlerVars, hookVars>>

\* line 21: CURRENT_DATE is a day later
DayPasses ==
  /\ boardToday < MaxDay
  /\ boardToday' = boardToday + 1
  /\ UNCHANGED <<boardRow, boardInserts, handlerVars, hookVars>>

BoardInit ==
  /\ Init
  /\ config = [youtube_api_key |-> TRUE, LOVABLE_API_KEY |-> TRUE]
  /\ now = UnitsPerDay

BoardNext ==
  \/ \E new \in QuizResults, name \in ProfileNames : QuizInserted(new, name)
  \/ DayPasses

BoardSpec == BoardInit /\ [][BoardNext]_vars

\* =============================================================== claims
\* a POST request has been answered with the success body
Success == pc = "done" /\ method = "POST" /\ response.status = 200

\* the planner answered OK and lines 175-193 have produced a plan
PlanParsed == parsedData # Undefined

\* the score searchYouTube gives a detail item during this request
ItemScore(item) ==
  EngagementScore(ParseCount(item.viewCount), ParseCount(item.likeCount), item.publishedAt, now)

\* a subtasks array of one or more title/searchQuery string pairs, and a
\* mainSearchQuery string
ValidPlan(plan) ==
  /\ IsArr(Prop(plan, "subtasks"))
  /\ Len(plan.subtasks.arr) >= 1
  /\ \A i \in 1..Len(plan.subtasks.arr) :
        /\ IsStr(Prop(plan.subtasks.arr[i], "title"))
        /\ IsStr(Prop(plan.subtasks.arr[i], "searchQuery"))
  /\ IsStr(Prop(plan, "mainSearchQuery"))

\* C1: every success response to a request with a non-empty topic lists
\* between 1 and 5 subtasks, whatever the planner's text was.
C1_SubtaskCountBetween1And5 ==
  Success => Len(response.body.subtasks) >= 1 /\ Len(response.body.subtasks) <= 5

\* the three fallback titles for the request's topic, in order
FallbackTitles ==
  << Str(<<"Introduction to ">> \o topic.str),
     Str(<<"Core concepts of ">> \o topic.str),
     Str(<<"Practice ">> \o topic.str) >>

\* C2: when the planner's text cannot be parsed, the plan used is exactly the
\* three subtasks "Introduction to <topic>", "Core concepts of <topic>",
\* "Practice <topic>", in this order, with main query "<topic> tutorial
\* explained": the plan parsed, the main query searched, the callbacks started
\* and the subtasks answered are those of the topic alone.
C2_ParseFailureUsesFallbackPlan ==
  parseFailed =>
    /\ IsArr(parsedData.subtasks)
    /\ [i \in 1..Len(parsedData.subtasks.arr) |-> parsedData.subtasks.arr[i].title]
         = FallbackTitles
    /\ parsedData.mainSearchQuery = Str(topic.str \o <<" tutorial explained">>)
    /\ mainQuery = Str(topic.str \o <<" tutorial explained">>)
    /\ branches # << >> =>
         [i \in 1..Len(branches) |-> branches[i].subtask.title] = FallbackTitles
    /\ Success =>
         [i \in 1..Len(response.body.subtasks) |-> response.body.subtasks[i].title]
           = FallbackTitles

\* C2 witness: a request whose planner text did not parse was answered with success
C2_Witness == parseFailed /\ Success

\* C3: when the planner's text parses but fails validation (no subtasks array,
\* an empty one, an item that is no title/searchQuery string pair, no
\* mainSearchQuery string), the fallback plan is substituted for it: the plan
\* in use is never an invalid one, and the query searched is the plan's.
C3_InvalidPlanReplacedByFallback ==
  PlanParsed =>
    /\ ValidPlan(parsedData)
    /\ (mainSearchCalls > 0 => mainQuery = parsedData.mainSearchQuery)

\* C4: whatever text the planner answered with an OK status, if the main
\* search returned at least one candidate the request ends in success.
C4_MalformedPlanNeverSurfaced ==
  (pc = "done" /\ PlanParsed /\ mainVideos # << >>) => response.status = 200

\* C5: in every success response the primary video is a candidate of the
\* main search (same videoId, title and channel) whose engagementScore is
\* maximal among the main search's candidates.
C5_PrimaryHasMaximalScore ==
  Success =>
    \E k \in 1..Len(mainItems) :
      /\ response.body.videoId = mainItems[k].id
      /\ response.body.title = mainItems[k].title
      /\ response.body.channel = mainItems[k].channelTitle
      /\ \A j \in 1..Len(mainItems) : ItemScore(mainItems[j]) <= ItemScore(mainItems[k])

\* C5 witness: success where the provider listed the best candidate second
C5_Witness ==
  /\ Success
  /\ Len(mainItems) = 2
  /\ ItemScore(mainItems[1]) < ItemScore(mainItems[2])

\* C6: primary selection is a function of the candidate list and the current
\* time: the primary video is the candidate of maximal engagementScore that
\* comes earliest in the provider's response order.
C6_PrimaryIsEarliestOfMaximal ==
  Success =>
    \E k \in 1..Len(mainItems) :
      /\ response.body.videoId = mainItems[k].id
      /\ \A j \in 1..Len(mainItems) : ItemScore(mainItems[j]) <= ItemScore(mainItems[k])
      /\ \A j \in 1..(k - 1) : ItemScore(mainItems[j]) < ItemScore(mainItems[k])

\* C6 witness: success where two candidates tie on the maximal score
C6_Witness ==
  /\ Success
  /\ Len(mainItems) = 2
  /\ ItemScore(mainItems[1]) = ItemScore(mainItems[2])

\* the search of subtask i threw, or returned without candidates
CameBackEmpty(i) ==
  /\ branches[i].pc = "done"
  /\ branches[i].failed \/ branches[i].detailCalls = 0

\* C7: once the main search has returned a candidate and the subtask searches
\* are under way, whichever of them fail or return zero candidates the request
\* ends in success, and each such subtask is answered with an empty videos list.
C7_SubtaskFailuresAbsorbed ==
  /\ (pc = "done" /\ branches # << >> /\ \A i \in 1..Len(branches) : branches[i].pc # "rejected")
       => response.status = 200
  /\ \A i \in 1..Len(branches) :
        CameBackEmpty(i) =>
          /\ subtasksWithVideos[i] # Pending
          /\ subtasksWithVideos[i].videos = << >>
          /\ pc = "done" =>
               /\ response.status = 200
               /\ response.body.subtasks[i].videos = << >>

\* C7 witness: success with one subtask search that threw, one that returned
\* no candidates and one that returned videos
C7_Witness ==
  /\ Success
  /\ \E i, j, k \in 1..Len(branches) :
        /\ branches[i].failed
        /\ ~branches[j].failed /\ branches[j].detailCalls = 0
        /\ response.body.subtasks[k].videos # << >>

\* C8: when the main search succeeds with zero candidates the request ends
\* with status 500 and a body holding only an error string, and no subtask
\* search is issued.
C8_NoCandidatesIsFatal ==
  (mainResult = "returned" /\ mainVideos = << >>) =>
    /\ pc = "done"
    /\ response.status = 500
    /\ DOMAIN response.body = {"error"}
    /\ branches = << >>
    /\ subtasksWithVideos = << >>

\* C8 witness: the main search returned no candidates
C8_Witness == pc = "done" /\ mainResult = "returned" /\ mainVideos = << >>

\* C9: when either call of the main search fails the request ends with status
\* 500, no subtask search is issued and the main search is not sent again.
C9_MainSearchFailureIsFatal ==
  mainResult = "threw" =>
    /\ pc = "done"
    /\ response.status = 500
    /\ DOMAIN response.body = {"error"}
    /\ branches = << >>
    /\ mainSearchCalls = 1
    /\ mainDetailCalls <= 1

\* C9 witness: the detail call of the main search failed
C9_Witness == mainResult = "threw" /\ mainDetailCalls = 1

\* the value answered for position i carries the title and search query of
\* the plan's i-th subtask
CorrespondsToPlan(value, i) ==
  LET subtask == parsedData.subtasks.arr[i]
  IN  /\ value.title = IF Truthy(Prop(subtask, "title")) THEN subtask.title
                        ELSE Str(<<"Part ", Digits[i]>>)
      /\ value.description = IF Truthy(Prop(subtask, "searchQuery")) THEN subtask.searchQuery
                              ELSE Str(<< >>)

\* C10: in whatever order the subtask searches complete, the i-th entry of
\* the subtasks list is that of the plan's i-th subtask.
C10_SubtasksMergedByIndex ==
  /\ \A i \in 1..Len(subtasksWithVideos) :
        subtasksWithVideos[i] # Pending => CorrespondsToPlan(subtasksWithVideos[i], i)
  /\ Success =>
        /\ Len(response.body.subtasks) = Len(branches)
        /\ \A i \in 1..Len(response.body.subtasks) :
              CorrespondsToPlan(response.body.subtasks[i], i)

\* C10 witness: a later subtask's search has completed before an earlier one's
C10_Witness ==
  \E i, j \in 1..Len(subtasksWithVideos) :
    /\ i < j
    /\ subtasksWithVideos[i] = Pending
    /\ subtasksWithVideos[j] # Pending

\* the entry subtask i gets from its own search alone: the ranked videos of
\* the identifiers its search returned
OwnEntry(i) ==
  SubtaskResult(branches[i].subtask, i,
                RankedVideos(ScoredVideos(ItemsOf(branches[i].ids), now)))

\* C11: a failure in one subtask branch never cancels or alters its siblings:
\* once the request has ended after the fan-out, every branch that did not
\* fail has had its search issued and awaited, and its entry in the response
\* is the one its own search gives.
C11_SiblingsUnaffectedByFailure ==
  (pc = "done" /\ branches # << >>) =>
    \A i \in 1..Len(branches) :
      (branches[i].pc # "rejected" /\ ~branches[i].failed) =>
        /\ branches[i].searchCalls = 1
        /\ branches[i].pc = "done"
        /\ response.status = 200
        /\ response.body.subtasks[i] = OwnEntry(i)

\* C12: when the planning service answers with a non-OK status the request
\* ends with 429 for 429, 402 for 402 and 500 for any other status, with an
\* error body, no video search issued, no plan (parsed or fallback) and no
\* second call to the planner.
C12_PlannerNonOkMapped ==
  aiStatus \notin {0, OkStatus} =>
    /\ pc = "done"
    /\ response.status = (IF aiStatus \in {429, 402} THEN aiStatus ELSE 500)
    /\ DOMAIN response.body = {"error"}
    /\ plannerCalls = 1
    /\ mainSearchCalls = 0 /\ mainDetailCalls = 0
    /\ branches = << >>
    /\ parsedData = Undefined /\ ~parseFailed

\* C12 witness: the planner answered 402 and the request has ended
C12_Witness == aiStatus = 402 /\ pc = "done"

\* C13: a POST request whose body holds no topic, or an empty one, is
\* answered with status 400 and an error body, and neither the planning
\* service nor the video-search provider is called for it.
C13_MissingTopicIs400 ==
  (method = "POST" /\ bodyRead /\ topic \in {Undefined, Str(<< >>)}) =>
    /\ pc = "done"
    /\ response.status = 400
    /\ DOMAIN response.body = {"error"}
    /\ plannerCalls = 0
    /\ mainSearchCalls = 0 /\ mainDetailCalls = 0
    /\ branches = << >>

\* C13 witness: a request with an empty topic and both keys configured has
\* been answered
C13_Witness ==
  /\ method = "POST" /\ bodyRead /\ topic = Str(<< >>)
  /\ config.youtube_api_key /\ config.LOVABLE_API_KEY
  /\ pc = "done"

\* C14: every engagementScore the search operation computes, for every
\* non-negative viewCount and likeCount and every publish date (same-day and
\* future dates included), lies in the closed interval [1, 100].
C14_ScoreWithinBounds ==
  \A k \in 1..Len(mainVideos) :
    /\ mainVideos[k].engagementScore >= ScoreMin * ScoreScale
    /\ mainVideos[k].engagementScore <= ScoreMax * ScoreScale

\* C14 witness: a video published in the future without views or likes has
\* been scored together with one whose raw score exceeds the upper bound
C14_Witness ==
  /\ pc = "scored"
  /\ \E i, j \in 1..Len(mainItems) :
        /\ mainItems[i].publishedAt > now
        /\ ParseCount(mainItems[i].viewCount) = 0 /\ ParseCount(mainItems[i].likeCount) = 0
        /\ mainItems[j].publishedAt > now
        /\ ParseCount(mainItems[j].likeCount) * LikeWeight > ScoreMax * ScoreScale

\* the engagementScore searchYouTube returned for item i of the detail answer
ReturnedScore(i) ==
  LET k == CHOOSE k \in 1..Len(mainVideos) : mainVideos[k].videoId = mainItems[i].id
  IN  mainVideos[k].engagementScore

\* C15: engagementScore is monotone: of two videos scored with the same
\* likeCount and age, the one with the larger viewCount never has the smaller
\* score, and of two with the same viewCount and age, the one with the larger
\* likeCount never has the smaller score.
C15_ScoreMonotone ==
  pc = "scored" =>
    \A i, j \in 1..Len(mainItems) :
      LET a == mainItems[i]
          b == mainItems[j]
      IN  /\ a.publishedAt = b.publishedAt
          /\ \/ /\ ParseCount(a.likeCount) = ParseCount(b.likeCount)
                /\ ParseCount(a.viewCount) <= ParseCount(b.viewCount)
             \/ /\ ParseCount(a.viewCount) = ParseCount(b.viewCount)
                /\ ParseCount(a.likeCount) <= ParseCount(b.likeCount)
          => ReturnedScore(i) <= ReturnedScore(j)

\* C15 witness: two videos on either side of the 100000-view threshold, alike
\* in likes and age, have been scored, neither score being clamped
C15_Witness ==
  /\ pc = "scored"
  /\ mainItems[1].likeCount = mainItems[2].likeCount
  /\ mainItems[1].viewCount = ViewBonusThreshold
  /\ mainItems[2].viewCount = ViewBonusThreshold + 1
  /\ ReturnedScore(1) > ScoreMin * ScoreScale
  /\ ReturnedScore(2) < ScoreMax * ScoreScale

\* rawScore of item i as the fraction ScoreNum(i) / ScoreDen(i):
\* viewCount / daysSincePublish * 0.5 + likeCount * 10 + bonus
ScoreDen(i) == ViewWeightDivisor * Max(UnitsPerDay, now - mainItems[i].publishedAt)
ScoreAddend(i) ==
  ParseCount(mainItems[i].likeCount) * LikeWeight
  + (IF ParseCount(mainItems[i].viewCount) > ViewBonusThreshold THEN ViewBonus ELSE 0)
ScoreNum(i) == UnitsPerDay * ParseCount(mainItems[i].viewCount) + ScoreAddend(i) * ScoreDen(i)

\* r = round(num / den), or r is a clamp bound that round(num / den) is
\* beyond; round(x) is the integer r with r - 1/2 <= x < r + 1/2
IsClampedRound(r, num, den, lo, hi) ==
  /\ lo <= r /\ r <= hi
  /\ r > lo => (2 * r - 1) * den <= 2 * num
  /\ r < hi => 2 * num < (2 * r + 1) * den

\* C16 as stated: for every candidate the engagementScore equals
\* clamp(round(rawScore / 1000), 1, 100): a whole number, the rounding being
\* applied to rawScore / 1000.
C16_ScoreRoundsQuotient ==
  pc = "scored" =>
    \A i \in 1..Len(mainItems) :
      /\ ReturnedScore(i) % ScoreScale = 0
      /\ IsClampedRound(ReturnedScore(i) \div ScoreScale, ScoreNum(i), ScoreScale * ScoreDen(i),
                        ScoreMin, ScoreMax)

\* C16 amended: for every candidate the engagementScore equals
\* clamp(round(rawScore) / 1000, 1, 100): the rounding is applied to rawScore,
\* and the rounded value is divided by 1000 and clamped.
C16_ScoreRoundsRawScore ==
  pc = "scored" =>
    \A i \in 1..Len(mainItems) :
      IsClampedRound(ReturnedScore(i), ScoreNum(i), ScoreDen(i),
                     ScoreMin * ScoreScale, ScoreMax * ScoreScale)

\* C16 witness: a scored candidate whose score lies between the clamp bounds
\* and is no whole number
C16_Witness ==
  /\ pc = "scored"
  /\ \E i \in 1..Len(mainItems) :
        /\ ReturnedScore(i) > ScoreMin * ScoreScale
        /\ ReturnedScore(i) < ScoreMax * ScoreScale
        /\ ReturnedScore(i) % ScoreScale # 0

\* C17: when the plan holds n subtasks, exactly the first min(n, 5) of them
\* are searched and, on success, returned, in plan order; subtasks beyond the
\* 5th are neither searched nor returned.
C17_FirstFiveSubtasksOnly ==
  (PlanParsed /\ IsArr(Prop(parsedData, "subtasks"))) =>
    LET planned == parsedData.subtasks.arr
        kept == Min(Len(planned), SubtaskLimit)
    IN  /\ branches # << >> =>
              /\ Len(branches) = kept
              /\ \A i \in 1..kept : branches[i].subtask = planned[i]
        /\ Success =>
              /\ Len(response.body.subtasks) = kept
              /\ \A i \in 1..kept : CorrespondsToPlan(response.body.subtasks[i], i)

\* C17 witness: success for a plan of more than five subtasks
C17_Witness ==
  /\ Success
  /\ IsArr(Prop(parsedData, "subtasks"))
  /\ Len(parsedData.subtasks.arr) > SubtaskLimit

\* the candidates searchYouTube scored for subtask i: the detail items of the
\* identifiers its search call returned
ScoredCandidates(i) == ItemsOf(branches[i].ids)

\* C18: in every success response each subtask's videos list holds at most 5
\* videos, each of them one of that subtask's scored candidates with its
\* score, and no candidate left out scores higher than one listed.
C18_SubtaskVideosTopFive ==
  Success =>
    \A i \in 1..Len(response.body.subtasks) :
      LET videos == response.body.subtasks[i].videos
          candidates == ScoredCandidates(i)
          listed == {videos[k].videoId : k \in 1..Len(videos)}
      IN  /\ Len(videos) <= 5
          /\ \A k \in 1..Len(videos) :
                \E c \in 1..Len(candidates) :
                  /\ candidates[c].id = videos[k].videoId
                  /\ ItemScore(candidates[c]) = videos[k].engagementScore
          /\ \A c \in 1..Len(candidates) :
                candidates[c].id \notin listed =>
                  \A k \in 1..Len(videos) :
                    ItemScore(candidates[c]) <= videos[k].engagementScore

\* C18 witness: success with a subtask whose query has more than 5 hits at
\* the provider and whose videos list holds 5
C18_Witness ==
  /\ Success
  /\ Len(SubtaskHits) > 5
  /\ \E i \in 1..Len(response.body.subtasks) :
        Len(response.body.subtasks[i].videos) = 5

\* C19: within every subtask of a success response the video at position 0
\* carries the reason "Highest engagement for this topic", the video at
\* position i >= 1 carries "Recommended video #N" with N = i + 1, and no two
\* videos of one subtask carry the same reason. Positions count from 1 here.
C19_ReasonTags ==
  Success =>
    \A i \in 1..Len(response.body.subtasks) :
      LET videos == response.body.subtasks[i].videos
      IN  /\ \A k \in 1..Len(videos) :
                videos[k].reason =
                  CASE k = 1 -> <<"Highest engagement for this topic">>
                    [] k = 2 -> <<"Recommended video #", "2">>
                    [] k = 3 -> <<"Recommended video #", "3">>
                    [] k = 4 -> <<"Recommended video #", "4">>
                    [] k = 5 -> <<"Recommended video #", "5">>
          /\ \A k, l \in 1..Len(videos) : k # l => videos[k].reason # videos[l].reason

\* C19 witness: success with a subtask of five tagged videos
C19_Witness ==
  /\ Success
  /\ \E i \in 1..Len(response.body.subtasks) :
        /\ Len(response.body.subtasks[i].videos) = 5
        /\ response.body.subtasks[i].videos[5].reason = <<"Recommended video #", "5">>

\* C20: an OPTIONS request is answered with a permissive cross-origin
\* response (status 200, any origin allowed, no body) whatever its body and
\* the configuration are, and causes no call to the planning service or the
\* video-search provider.
C20_PreflightPermissive ==
  method = "OPTIONS" =>
    /\ pc = "done"
    /\ response.status = 200
    /\ response.cors.allowOrigin = "*"
    /\ response.cors.allowHeaders = "authorization, x-client-info, apikey, content-type"
    /\ response.body = Null
    /\ ~bodyRead
    /\ plannerCalls = 0
    /\ mainSearchCalls = 0 /\ mainDetailCalls = 0
    /\ branches = << >>

\* C20 witness: an OPTIONS request has been answered while neither key is
\* configured
C20_Witness ==
  /\ method = "OPTIONS"
  /\ pc = "done"
  /\ ~config.youtube_api_key /\ ~config.LOVABLE_API_KEY

\* C21: every response to a non-OPTIONS request has a status in
\* {200, 400, 402, 429, 500}; a non-200 body holds only an error string, a 200
\* body holds a primary video and a subtasks list and no error field; 400 is
\* answered only for a rejected topic, 402 and 429 only for that status of the
\* planner, and every other failure, an unreadable body included, yields 500.
C21_StatusAndBodyShape ==
  (pc = "done" /\ method = "POST") =>
    /\ response.status \in {200, 400, 402, 429, 500}
    /\ response.status # 200 =>
          /\ DOMAIN response.body = {"error"}
          /\ response.body.error # << >>
    /\ response.status = 200 =>
          /\ {"videoId", "title", "channel", "subtasks"} \subseteq DOMAIN response.body
          /\ "error" \notin DOMAIN response.body
          /\ response.body.videoId \in DOMAIN Catalogue
    /\ response.status = 400 => bodyRead /\ ~Truthy(topic)
    /\ response.status \in {402, 429} => aiStatus = response.status
    /\ ~bodyRead => response.status = 500
    /\ response.contentType = "application/json"
    /\ response.cors = corsHeaders

\* C21 witness: a request whose body could not be read has been answered
C21_Witness == pc = "done" /\ method = "POST" /\ ~bodyRead

\* a string of whitespace only (the empty string included)
IsBlank(v) == IsStr(v) /\ \A k \in 1..Len(v.str) : v.str[k] = " "

\* C22: the topic is trimmed before validation: a request whose topic
\* consists only of whitespace is answered with status 400 and the planning
\* service is not called.
C22_WhitespaceTopicIs400 ==
  (method = "POST" /\ bodyRead /\ IsBlank(topic)) =>
    /\ pc = "done"
    /\ response.status = 400
    /\ plannerCalls = 0

\* a search call has been sent for some subtask
SubtaskSearchIssued == \E i \in 1..Len(branches) : branches[i].searchCalls > 0

\* C23: within one request the external calls are strictly ordered: no video
\* search is issued before the planner call has returned an OK response, and
\* no subtask search is issued before the main-query search has completed with
\* at least one candidate.
C23_CallsStrictlyOrdered ==
  /\ (mainSearchCalls > 0 \/ mainDetailCalls > 0 \/ SubtaskSearchIssued) =>
        /\ plannerCalls = 1
        /\ aiStatus = OkStatus
  /\ mainDetailCalls > 0 => mainSearchCalls > 0
  /\ (branches # << >> \/ SubtaskSearchIssued) =>
        /\ mainSearchCalls = 1 /\ mainDetailCalls = 1
        /\ mainResult = "returned"
        /\ mainVideos # << >>

\* C23 witness: the subtask searches are under way
C23_Witness == pc = "subtasks" /\ SubtaskSearchIssued

\* C24: no call is retried and the fan-out is bounded: the planning service
\* is called at most once, the main query is searched at most once, at most 5
\* subtask searches are issued, one per subtask of the plan, and each search
\* issues at most one query call and one detail call.
C24_NoRetryBoundedFanOut ==
  /\ plannerCalls <= 1
  /\ mainSearchCalls <= 1
  /\ mainDetailCalls <= mainSearchCalls
  /\ Len(branches) <= 5
  /\ \A i \in 1..Len(branches) :
        /\ branches[i].searchCalls <= 1
        /\ branches[i].detailCalls <= branches[i].searchCalls
        /\ branches[i].subtask = parsedData.subtasks.arr[i]

\* C24 witness: the request has ended after a failed search of one subtask and
\* five subtask searches in all
C24_Witness ==
  /\ pc = "done"
  /\ Len(branches) = 5
  /\ \A i \in 1..Len(branches) : branches[i].searchCalls = 1
  /\ \E i \in 1..Len(branches) : branches[i].failed

\* every callback of the fan-out but one has returned
LastBranchPending ==
  /\ pc = "subtasks"
  /\ Cardinality({i \in 1..Len(branches) : branches[i].pc # "done"}) = 1

\* C25: if every external call issued for a request eventually resolves or
\* errors, the request eventually produces a response, and only one: once
\* given, the response does not change; and when one subtask search is the
\* last to resolve or error, the request still ends in success.
C25_EventuallyOneResponse ==
  /\ (pc \notin {"idle", "done"}) ~> (pc = "done" /\ response # NoResponse)
  /\ LastBranchPending ~> Success
  /\ [][pc = "done" => (pc' = "done" /\ response' = response)]_vars

\* C25 witness: the request has been answered with success after a subtask's
\* detail call failed
C25_Witness ==
  /\ Success
  /\ \E i \in 1..Len(branches) : branches[i].failed /\ branches[i].detailCalls = 1

\* C26: when the query call of a search succeeds but yields zero video
\* identifiers, the search operation returns an empty candidate list without
\* raising an error and without issuing the detail call; for the main query
\* and for each subtask alike.
C26_NoIdentifiersReturnsEmpty ==
  /\ (mainSearchAnswer = "ok" /\ mainIds = << >>) =>
        /\ mainDetailCalls = 0
        /\ mainResult = "returned"
        /\ mainVideos = << >>
  /\ \A i \in 1..Len(branches) :
        (branches[i].searchAnswer = "ok" /\ branches[i].ids = << >>) =>
          /\ branches[i].detailCalls = 0
          /\ branches[i].pc = "done" /\ ~branches[i].failed
          /\ subtasksWithVideos[i] # Pending
          /\ subtasksWithVideos[i].videos = << >>

\* C26 witness: the main query's search call was answered OK without any
\* identifier
C26_Witness == mainSearchAnswer = "ok" /\ mainIds = << >> /\ mainSearchCalls = 1

\* C27: if the query call or the detail call of a search returns a non-OK
\* status, the search operation raises a failure and returns no candidates,
\* never a partial list; when the query call fails, the detail call is never
\* issued. For the main query and for each subtask alike.
C27_SearchFailureRaises ==
  /\ mainSearchAnswer = "error" =>
        /\ mainResult = "threw"
        /\ mainDetailCalls = 0
        /\ mainVideos = << >>
  /\ mainDetailAnswer = "error" =>
        /\ mainResult = "threw"
        /\ mainVideos = << >>
  /\ \A i \in 1..Len(branches) :
        /\ branches[i].searchAnswer = "error" =>
              /\ branches[i].failed
              /\ branches[i].detailCalls = 0
              /\ subtasksWithVideos[i] # Pending /\ subtasksWithVideos[i].videos = << >>
        /\ branches[i].detailAnswer = "error" =>
              /\ branches[i].failed
              /\ subtasksWithVideos[i] # Pending /\ subtasksWithVideos[i].videos = << >>

\* C27 witness: the detail call of the main query, asked for two identifiers,
\* was answered with a non-OK status
C27_Witness == mainDetailAnswer = "error" /\ Len(mainIds) = 2

\* the videos are in non-increasing order of engagementScore
NonIncreasing(videos) ==
  \A k \in 1..(Len(videos) - 1) :
    videos[k].engagementScore >= videos[k + 1].engagementScore

\* the videos are the items, each exactly once and with its own score
PermutationOf(videos, items) ==
  /\ Len(videos) = Len(items)
  /\ \A c \in 1..Len(items) :
        Cardinality({k \in 1..Len(videos) :
                       /\ videos[k].videoId = items[c].id
                       /\ videos[k].engagementScore = ItemScore(items[c])}) = 1

\* C28: every candidate list the search operation returns, and so every
\* subtask's videos list in a success response, is in non-increasing order of
\* engagementScore and is a permutation of the detail call's items: no
\* candidate is dropped or duplicated by scoring or sorting.
C28_SortedPermutation ==
  /\ mainDetailAnswer = "ok" =>
        /\ NonIncreasing(mainVideos)
        /\ PermutationOf(mainVideos, mainItems)
  /\ \A i \in 1..Len(branches) :
        branches[i].detailAnswer = "ok" =>
          /\ NonIncreasing(subtasksWithVideos[i].videos)
          /\ PermutationOf(subtasksWithVideos[i].videos, ScoredCandidates(i))
          /\ Success =>
                /\ NonIncreasing(response.body.subtasks[i].videos)
                /\ PermutationOf(response.body.subtasks[i].videos, ScoredCandidates(i))

\* C28 witness: success with a subtask of five videos whose best candidate
\* was not the provider's first, and with two candidates of equal score
C28_Witness ==
  /\ Success
  /\ \E i \in 1..Len(branches) :
        LET videos == response.body.subtasks[i].videos
        IN  /\ Len(videos) = 5
            /\ videos[1].videoId # ScoredCandidates(i)[1].id
            /\ \E k \in 1..(Len(videos) - 1) :
                  videos[k].engagementScore = videos[k + 1].engagementScore


\* C29: in useVideoSearch, whatever the interleaving of findVideos calls and
\* the order their answers arrive in, error and videos are never both
\* non-null, and once no call is in flight loading is false.
C29_ErrorAndVideosExclusive ==
  /\ ~(hookError # Null /\ hookVideos # Null)
  /\ (InFlightCount = 0 => hookLoading = FALSE)

\* a quiz result is inserted in this step
InsertStep == boardInserts' = boardInserts + 1

\* C30: after any sequence of quiz-result inserts for one user on
\* non-decreasing dates, the leaderboard row has longest_streak >=
\* current_streak >= 1 and total_quizzes equal to the number of inserts;
\* longest_streak never decreases; and an insert adds exactly 1 to
\* current_streak when the previous activity was the day before (and only
\* then does it grow), leaves it unchanged on the same day, and sets it to 1
\* after a gap or for the first insert.
C30_StreakAndCounts ==
  /\ [](/\ (boardRow = NoRow) = (boardInserts = 0)
        /\ (boardRow # NoRow =>
              /\ boardRow.longest_streak >= boardRow.current_streak
              /\ boardRow.current_streak >= 1
              /\ boardRow.total_quizzes = boardInserts))
  /\ [][/\ ((boardRow # NoRow /\ boardRow' # NoRow) =>
              boardRow'.longest_streak >= boardRow.longest_streak)
         /\ (~InsertStep => boardRow' = boardRow)
         /\ ((InsertStep /\ boardRow = NoRow) => boardRow'.current_streak = 1)
         /\ ((InsertStep /\ boardRow # NoRow) =>
              /\ (boardRow.last_activity_date = boardToday - 1 =>
                    boardRow'.current_streak = boardRow.current_streak + 1)
              /\ (boardRow.last_activity_date = boardToday =>
                    boardRow'.current_streak = boardRow.current_streak)
              /\ (boardRow.last_activity_date < boardToday - 1 =>
                    boardRow'.current_streak = 1)
              /\ (boardRow'.current_streak > boardRow.current_streak =>
                    boardRow.last_activity_date = boardToday - 1))]_vars

\* a streak of two days was broken by a gap and a new one has begun: the row
\* keeps the longer streak beside the current one
C30_Witness ==
  /\ boardRow # NoRow
  /\ boardInserts >= 3
  /\ boardRow.current_streak = 1
  /\ boardRow.longest_streak = 2
  /\ boardRow.last_activity_date = boardToday

====
